---- MODULE Spec2Model ----
(***************************************************************************)
(* Scoring pipeline of indiqs3.py: the answer-cell decoder                 *)
(* (extract_answer_value), the row scorer (calculate_row_score), the       *)
(* workbook processor (process_workbook) and the per-question analyzer     *)
(* (calculate_question_stats).                                             *)
(*                                                                         *)
(* Text is modelled as a sequence of one-character strings, so that        *)
(* stripping, un-quoting, JSON parsing and grade formatting are computed   *)
(* rather than assumed.  A Python Optional[int] is <<>> (None) or <<n>>.   *)
(* A ratio (Percentage, Accuracy, Growth) is an exact fraction             *)
(* [nan, num, den]; pandas yields NaN for 0/0 and for arithmetic on NaN.   *)
(***************************************************************************)
EXTENDS Integers, Sequences, FiniteSets, TLC

VARIABLES pc, val, row, df, key_df, assessment_type, xls, ret, q_stats

vars == <<pc, val, row, df, key_df, assessment_type, xls, ret, q_stats>>

(***************************************************************************)
(* Bounds of the model                                                     *)
(***************************************************************************)
MaxRows == 2
MaxExtra == 1

(***************************************************************************)
(* Python values                                                           *)
(***************************************************************************)
None == <<>>
Some(n) == <<n>>

\* A variable no operation of the running specification uses.
Unused == "unused"

\* A worksheet cell: blank (read by pandas as NaN) or text.
Blank == [na |-> TRUE, text |-> <<>>]
Text(s) == [na |-> FALSE, text |-> s]

Digits == <<"0", "1", "2", "3", "4", "5", "6", "7", "8", "9">>
DigitSet == {Digits[i] : i \in 1..10}
DigitVal(c) == (CHOOSE i \in 1..10 : Digits[i] = c) - 1
Letters == {"a", "b", "c", "e", "f", "l", "n", "o", "r", "s", "t", "u", "v", "x"}
Quote == "\""

AllIn(s, S) == \A i \in 1..Len(s) : s[i] \in S

RECURSIVE DecimalValue(_)
DecimalValue(s) ==
  IF s = <<>> THEN 0
  ELSE 10 * DecimalValue(SubSeq(s, 1, Len(s) - 1)) + DigitVal(s[Len(s)])

RECURSIVE NatToStr(_)
NatToStr(n) ==
  IF n < 10 THEN <<Digits[n + 1]>>
  ELSE NatToStr(n \div 10) \o <<Digits[(n % 10) + 1]>>

(***************************************************************************)
(* str.strip(), str[1:-1] and str.replace('""', '"')                       *)
(***************************************************************************)
IsSpace(c) == c = " "

RECURSIVE LStrip(_)
LStrip(s) == IF s # <<>> /\ IsSpace(s[1]) THEN LStrip(Tail(s)) ELSE s

RECURSIVE RStrip(_)
RStrip(s) ==
  IF s # <<>> /\ IsSpace(s[Len(s)]) THEN RStrip(SubSeq(s, 1, Len(s) - 1)) ELSE s

Strip(s) == RStrip(LStrip(s))

IsQuoted(s) == s # <<>> /\ s[1] = Quote /\ s[Len(s)] = Quote

Inner(s) == SubSeq(s, 2, Len(s) - 1)

RECURSIVE UndoubleQuotes(_)
UndoubleQuotes(s) ==
  IF Len(s) < 2 THEN s
  ELSE IF s[1] = Quote /\ s[2] = Quote
       THEN <<Quote>> \o UndoubleQuotes(SubSeq(s, 3, Len(s)))
       ELSE <<s[1]>> \o UndoubleQuotes(Tail(s))

(***************************************************************************)
(* json.loads on the JSON subset the cells use: one scalar, or one flat    *)
(* object of string keys and scalar values; strings without escapes,       *)
(* numbers without exponent.                                               *)
(***************************************************************************)
Punct == {"{", "}", ":", ","}
NumChars == DigitSet \cup {"-", "."}

Tok(k, s) == [k |-> k, s |-> s]
BadTok == Tok("bad", <<>>)

\* Length of the longest prefix of s made of characters of S.
RECURSIVE Run(_, _)
Run(s, S) == IF s # <<>> /\ s[1] \in S THEN 1 + Run(Tail(s), S) ELSE 0

\* Index of the first quote character of s, 0 if there is none.
RECURSIVE QuotePos(_)
QuotePos(s) ==
  IF s = <<>> THEN 0
  ELSE IF s[1] = Quote THEN 1
  ELSE LET p == QuotePos(Tail(s)) IN IF p = 0 THEN 0 ELSE p + 1

Drop(s, n) == SubSeq(s, n + 1, Len(s))

RECURSIVE Tokens(_)
Tokens(s) ==
  IF s = <<>> THEN <<>>
  ELSE IF IsSpace(s[1]) THEN Tokens(Tail(s))
  ELSE IF s[1] \in Punct THEN <<Tok(s[1], <<>>)>> \o Tokens(Tail(s))
  ELSE IF s[1] = Quote THEN
         LET p == QuotePos(Tail(s)) IN
         IF p = 0 THEN <<BadTok>>
         ELSE <<Tok("str", SubSeq(s, 2, p))>> \o Tokens(Drop(s, p + 1))
  ELSE IF s[1] \in NumChars THEN
         LET n == Run(s, NumChars) IN
         <<Tok("num", SubSeq(s, 1, n))>> \o Tokens(Drop(s, n))
  ELSE IF s[1] \in Letters THEN
         LET n == Run(s, Letters) IN
         <<Tok("lit", SubSeq(s, 1, n))>> \o Tokens(Drop(s, n))
  ELSE <<BadTok>>

\* -?(0|[1-9][0-9]*)(\.[0-9]+)?
IsIntText(s) ==
  /\ s # <<>>
  /\ AllIn(s, DigitSet)
  /\ (s[1] = "0" => Len(s) = 1)

IsNumberText(s) ==
  LET u == IF s # <<>> /\ s[1] = "-" THEN Tail(s) ELSE s
      w == Run(u, DigitSet)
      f == Drop(u, w)
  IN  /\ IsIntText(SubSeq(u, 1, w))
      /\ \/ f = <<>>
         \/ /\ Len(f) >= 2
            /\ f[1] = "."
            /\ AllIn(Tail(f), DigitSet)

LitTrue == <<"t", "r", "u", "e">>
LitFalse == <<"f", "a", "l", "s", "e">>
LitNull == <<"n", "u", "l", "l">>

IsScalar(t) ==
  \/ t.k = "str"
  \/ t.k = "num" /\ IsNumberText(t.s)
  \/ t.k = "lit" /\ t.s \in {LitTrue, LitFalse, LitNull}

\* members of an object: str : scalar (, str : scalar)*
RECURSIVE IsMembers(_)
IsMembers(ts) ==
  /\ Len(ts) >= 3
  /\ ts[1].k = "str"
  /\ ts[2].k = ":"
  /\ IsScalar(ts[3])
  /\ \/ Len(ts) = 3
     \/ Len(ts) > 4 /\ ts[4].k = "," /\ IsMembers(Drop(ts, 4))

JsonError == [ok |-> FALSE, obj |-> FALSE, toks |-> <<>>]

JsonLoads(s) ==
  LET ts == Tokens(s) IN
  IF Len(ts) = 1 /\ IsScalar(ts[1])
    THEN [ok |-> TRUE, obj |-> FALSE, toks |-> ts]
  ELSE IF Len(ts) >= 2 /\ ts[1].k = "{" /\ ts[Len(ts)].k = "}"
          /\ (Len(ts) = 2 \/ IsMembers(Inner(ts)))
    THEN [ok |-> TRUE, obj |-> TRUE, toks |-> Inner(ts)]
  ELSE JsonError

ValueKey == <<"v", "a", "l", "u", "e">>
MinusOne == Tok("num", <<"-", "1">>)

\* data.get('value', -1): of a repeated key json.loads keeps the last value.
DictGet(members, key, default) ==
  LET hits == {i \in 1..Len(members) :
                 i % 4 = 1 /\ members[i].s = key}
  IN  IF hits = {} THEN default
      ELSE members[(CHOOSE i \in hits : \A j \in hits : j <= i) + 2]

\* int(x): of a number, a string or a boolean; None when int() raises.
PyInt(t) ==
  IF t.k = "num" THEN
    LET neg == t.s[1] = "-"
        u == IF neg THEN Tail(t.s) ELSE t.s
        w == DecimalValue(SubSeq(u, 1, Run(u, DigitSet)))
    IN  Some(IF neg THEN 0 - w ELSE w)
  ELSE IF t.k = "str" THEN
    LET u == Strip(t.s)
        signed == u # <<>> /\ u[1] \in {"-", "+"}
        d == IF signed THEN Tail(u) ELSE u
    IN  IF d # <<>> /\ AllIn(d, DigitSet)
          THEN Some(IF signed /\ u[1] = "-" THEN 0 - DecimalValue(d) ELSE DecimalValue(d))
          ELSE None
  ELSE IF t.s = LitTrue THEN Some(1)
  ELSE IF t.s = LitFalse THEN Some(0)
  ELSE None

extract_answer_value(cell) ==
  IF cell.na THEN None
  ELSE
    LET stripped == Strip(cell.text)
        clean_val == IF IsQuoted(stripped)
                       THEN UndoubleQuotes(Inner(stripped))
                       ELSE stripped
        data == JsonLoads(clean_val)
    IN  IF ~data.ok \/ ~data.obj THEN None
        ELSE PyInt(DictGet(data.toks, ValueKey, MinusOne))

(***************************************************************************)
(* Answer cells of the model                                               *)
(***************************************************************************)
Obj(k, v) == <<"{", Quote>> \o k \o <<Quote, ":">> \o v \o <<"}">>
OtherKey == <<"o">>

\* {"value": n} for an integer n: the well-formed answer cell.
IntValues == {<<"2">>, <<"3">>, <<"1", "0">>, <<"-", "1">>}
\* a "value" that is not an integer
NonIntValues ==
  {<<"2", ".", "7">>, <<Quote, "x", Quote>>, <<Quote, Quote>>, LitNull, LitTrue}

GoodBodies == {Obj(ValueKey, v) : v \in IntValues}
NonIntBodies == {Obj(ValueKey, v) : v \in NonIntValues}
NoValueBodies == {<<"{", "}">>} \cup {Obj(OtherKey, v) : v \in {<<"2">>, <<"3">>}}
NonJsonBodies ==
  { <<>>, <<"a", "b", "c">>, <<"{">>, <<"{", Quote, "v", Quote, "}">>,
    <<"{", "v", "a", "l", "u", "e", ":", "2", "}">>,
    Obj(ValueKey, <<"0", "2">>), Obj(ValueKey, <<"x">>) }
\* JSON, but no object: data.get raises AttributeError
ScalarBodies == {<<"2">>, LitNull}

Bodies == GoodBodies \cup NonIntBodies \cup NoValueBodies \cup NonJsonBodies
            \cup ScalarBodies

RECURSIVE DoubleQuotes(_)
DoubleQuotes(s) ==
  IF s = <<>> THEN <<>>
  ELSE (IF s[1] = Quote THEN <<Quote, Quote>> ELSE <<s[1]>>) \o DoubleQuotes(Tail(s))

\* The ways an export writes a body into a cell: as is, wrapped in one layer
\* of quotes with the inner quotes doubled, and either one padded with blanks.
Wrappings == {"plain", "quoted", "padded", "quoted-padded"}
Wrap(w, b) ==
  LET q == IF w \in {"quoted", "quoted-padded"}
             THEN <<Quote>> \o DoubleQuotes(b) \o <<Quote>> ELSE b
  IN  IF w \in {"padded", "quoted-padded"} THEN <<" ">> \o q \o <<" ", " ">> ELSE q

CellsOf(B) == {Text(Wrap(w, b)) : w \in Wrappings, b \in B}
Cells == {Blank} \cup CellsOf(Bodies)

(***************************************************************************)
(* Specification of the decoder: one call of extract_answer_value          *)
(***************************************************************************)
InitDecode ==
  /\ pc = "start"
  /\ val \in Cells
  /\ row = Unused /\ df = Unused /\ key_df = Unused
  /\ assessment_type = Unused /\ xls = Unused /\ ret = Unused
  /\ q_stats = Unused

ExtractAnswerValue ==
  /\ pc = "start"
  /\ ret' = extract_answer_value(val)
  /\ pc' = "done"
  /\ UNCHANGED <<val, row, df, key_df, assessment_type, xls, q_stats>>

NextDecode == ExtractAnswerValue

SpecDecode == InitDecode /\ [][NextDecode]_vars

(***************************************************************************)
(* Grades.  A student row carries the Grade cell as pandas read it: an     *)
(* integer, a float (the column is float64 as soon as one Grade cell of a  *)
(* numeric column is blank), text, or NaN (the blank cell itself).  The    *)
(* key carries the textual code "G<n>".                                    *)
(***************************************************************************)
GInt(n) == [t |-> "int", n |-> n, s |-> <<>>]
GFloat(n) == [t |-> "float", n |-> n, s |-> <<>>]
GStr(s) == [t |-> "str", n |-> 0, s |-> s]
GNaN == [t |-> "nan", n |-> 0, s |-> <<>>]

\* str(grade), as the f-string f"G{grade}" formats it
PyStr(g) ==
  IF g.t = "int" THEN NatToStr(g.n)
  ELSE IF g.t = "float" THEN NatToStr(g.n) \o <<".", "0">>
  ELSE IF g.t = "str" THEN g.s
  ELSE <<"n", "a", "n">>

GradeCode(grade) == <<"G">> \o PyStr(grade)

\* df['Grade'] == grade: numbers compare by value, text by content, a number
\* never equals text and NaN equals nothing.
PyEq(a, b) ==
  IF a.t = "nan" \/ b.t = "nan" THEN FALSE
  ELSE IF a.t = "str" \/ b.t = "str" THEN a.t = b.t /\ a.s = b.s
  ELSE a.n = b.n

(***************************************************************************)
(* calculate_row_score                                                     *)
(***************************************************************************)
LastQuestion == 10

KeyEntry(g, a, q, c) == [Grade |-> g, Assessment |-> a, Question |-> q, Correct |-> c]

RECURSIVE Filter(_, _)
Filter(s, keep) ==
  IF s = <<>> THEN <<>>
  ELSE (IF s[1] \in keep THEN <<s[1]>> ELSE <<>>) \o Filter(Tail(s), keep)

\* key_df[(key_df['Grade'] == f"G{grade}") & (key_df['Assessment'] == assessment_type)]
RelevantKey(key, grade, phase) ==
  Filter(key, {e \in {key[i] : i \in 1..Len(key)} :
                 e.Grade = GradeCode(grade) /\ e.Assessment = phase})

\* relevant_key[relevant_key['Question #'] == q_num]
QuestionKey(relevant_key, q_num) ==
  Filter(relevant_key, {e \in {relevant_key[i] : i \in 1..Len(relevant_key)} :
                          e.Question = q_num})

\* QuestionScore with an unanswered cell skipped altogether.
QuestionScoreSkipsUnanswered(r, relevant_key, q_num) ==
  IF q_num \in DOMAIN r.cells
    THEN LET student_ans == extract_answer_value(r.cells[q_num])
             correct_row == QuestionKey(relevant_key, q_num)
         IN  IF correct_row # <<>> /\ student_ans # None
               THEN <<IF student_ans = Some(correct_row[1].Correct) THEN 1 ELSE 0, 1>>
               ELSE <<0, 0>>
    ELSE <<0, 0>>

\* QuestionScore reading the last matching key row instead of the first.
QuestionScoreLastMatch(r, relevant_key, q_num) ==
  IF q_num \in DOMAIN r.cells
    THEN LET student_ans == extract_answer_value(r.cells[q_num])
             correct_row == QuestionKey(relevant_key, q_num)
         IN  IF correct_row # <<>>
               THEN <<IF student_ans = Some(correct_row[Len(correct_row)].Correct)
                        THEN 1 ELSE 0, 1>>
               ELSE <<0, 0>>
    ELSE <<0, 0>>

\* One pass of the loop body for q_num: what it adds to (score, total_questions).
QuestionScore(r, relevant_key, q_num) ==
  IF q_num \in DOMAIN r.cells
    THEN LET student_ans == extract_answer_value(r.cells[q_num])
             correct_row == QuestionKey(relevant_key, q_num)
         IN  IF correct_row # <<>>
               THEN <<IF student_ans = Some(correct_row[1].Correct) THEN 1 ELSE 0, 1>>
               ELSE <<0, 0>>
    ELSE <<0, 0>>

\* ScoreLoop running one question too far, as range(1, 12) would.
RECURSIVE ScoreLoopThroughQ11(_, _, _, _)
ScoreLoopThroughQ11(r, relevant_key, q_num, acc) ==
  IF q_num > LastQuestion + 1 THEN acc
  ELSE LET d == QuestionScore(r, relevant_key, q_num)
       IN  ScoreLoopThroughQ11(r, relevant_key, q_num + 1,
                               <<acc[1] + d[1], acc[2] + d[2]>>)

RECURSIVE ScoreLoop(_, _, _, _)
ScoreLoop(r, relevant_key, q_num, acc) ==
  IF q_num > LastQuestion THEN acc
  ELSE LET d == QuestionScore(r, relevant_key, q_num)
       IN  ScoreLoop(r, relevant_key, q_num + 1, <<acc[1] + d[1], acc[2] + d[2]>>)

calculate_row_score(r, key, phase) ==
  ScoreLoop(r, RelevantKey(key, r.Grade, phase), 1, <<0, 0>>)

(***************************************************************************)
(* Inputs of the scorer                                                    *)
(***************************************************************************)
Phases == {"Baseline", "Endline"}
G5 == <<"G", "5">>
G3 == <<"G", "3">>
Grades == {GInt(5), GStr(<<"5">>), GFloat(5), GInt(3), GNaN}

Answer2 == Text(Wrap("quoted", Obj(ValueKey, <<"2">>)))
Answer3 == Text(Obj(ValueKey, <<"3">>))
NoValue == Text(<<"{", "}">>)
Garbage == Text(<<"a", "b", "c">>)
ScoreCells == {Blank, Answer2, Answer3, NoValue, Garbage}
FillCells == {Blank, Answer2}

\* The question columns a response sheet has: none, Q1, Q1 and Q11,
\* Q1..Q10, Q1..Q11.
ColumnSets ==
  {{}, {1}, {1, LastQuestion + 1}, 1..LastQuestion, 1..(LastQuestion + 1)}

\* The cells of one row: Q1 holds c1, every other column fill.
RowCells(cols, c1, fill) == [q \in cols |-> IF q = 1 THEN c1 ELSE fill]

CellRows ==
  {RowCells(cols, c1, fill) : cols \in ColumnSets, c1 \in ScoreCells, fill \in FillCells}

Rows == {[sid |-> 1, Grade |-> g, cells |-> c] : g \in Grades, c \in CellRows}

\* A key sheet: a block of entries for grade 5 and one phase covering
\* Q1..Qn with correct answer 2 (n = 0, 2, 10 or 11), and up to MaxExtra
\* more entries written above or below it.
Template(p, n) == [q \in 1..n |-> KeyEntry(G5, p, q, 2)]
Templates ==
  {<<>>} \cup {Template(p, n) : p \in Phases, n \in {2, LastQuestion, LastQuestion + 1}}

ExtraEntries ==
  {KeyEntry(G5, p, q, c) : p \in Phases, q \in {1, LastQuestion + 1}, c \in {2, 3}}
    \cup {KeyEntry(G3, p, 1, 2) : p \in Phases}

SeqsUpTo(S, n) == UNION {[1..k -> S] : k \in 0..n}

Keys ==
  {x \o t : x \in SeqsUpTo(ExtraEntries, MaxExtra), t \in Templates}
    \cup {t \o x : x \in SeqsUpTo(ExtraEntries, MaxExtra), t \in Templates}

(***************************************************************************)
(* Specification of the scorer: one call of calculate_row_score            *)
(***************************************************************************)
InitScore ==
  /\ pc = "start"
  /\ row \in Rows
  /\ key_df \in Keys
  /\ assessment_type \in Phases
  /\ val = Unused /\ df = Unused /\ xls = Unused /\ ret = Unused
  /\ q_stats = Unused

CalculateRowScore ==
  /\ pc = "start"
  /\ ret' = calculate_row_score(row, key_df, assessment_type)
  /\ pc' = "done"
  /\ UNCHANGED <<val, row, df, key_df, assessment_type, xls, q_stats>>

NextScore == CalculateRowScore

SpecScore == InitScore /\ [][NextScore]_vars

(***************************************************************************)
(* Ratios.  pandas divides and averages in floating point: 0/0 and any     *)
(* arithmetic on NaN give NaN, nothing raises.  The model keeps the exact  *)
(* fraction.                                                               *)
(***************************************************************************)
NaN == [nan |-> TRUE, num |-> 0, den |-> 1]
\* Ratio with 0 in place of NaN.
RatioZeroForNaN(n, d) ==
  IF d = 0 THEN [nan |-> FALSE, num |-> 0, den |-> 1]
  ELSE [nan |-> FALSE, num |-> n, den |-> d]
Ratio(n, d) == IF d = 0 THEN NaN ELSE [nan |-> FALSE, num |-> n, den |-> d]
RatioSub(a, b) ==
  IF a.nan \/ b.nan THEN NaN
  ELSE [nan |-> FALSE, num |-> a.num * b.den - b.num * a.den, den |-> a.den * b.den]

(***************************************************************************)
(* pd.read_excel: a response sheet becomes a table.  A Grade column of     *)
(* integers stays integer; with a blank cell among the integers it is      *)
(* float64 (5 is read as 5.0, the blank as NaN); with text in it, it is an *)
(* object column that keeps every cell as written.                         *)
(***************************************************************************)
ReadGradeColumn(col) ==
  IF /\ \A i \in 1..Len(col) : col[i].t \in {"int", "nan"}
     /\ \E i \in 1..Len(col) : col[i].t = "nan"
    THEN [i \in 1..Len(col) |-> IF col[i].t = "int" THEN GFloat(col[i].n) ELSE GNaN]
    ELSE col

\* sheet: [columns, qcols, rows], a row [sid, Grade, cells]
ReadSheet(sheet) ==
  LET grades == ReadGradeColumn([i \in 1..Len(sheet.rows) |-> sheet.rows[i].Grade])
  IN  [sheet EXCEPT !.rows = [i \in 1..Len(sheet.rows) |->
                                 [sheet.rows[i] EXCEPT !.Grade = grades[i]]]]

(***************************************************************************)
(* calculate_question_stats                                                *)
(***************************************************************************)
\* Series.unique(): the distinct values in order of first appearance
RECURSIVE Unique(_)
Unique(s) ==
  IF s = <<>> THEN <<>>
  ELSE LET u == Unique(SubSeq(s, 1, Len(s) - 1))
       IN  IF \E i \in 1..Len(u) : u[i] = s[Len(s)] THEN u ELSE Append(u, s[Len(s)])

\* GradeRows without the grade filter.
GradeRowsAll(t, grade) == t.rows

\* df[df['Grade'] == grade]
GradeRows(t, grade) ==
  Filter(t.rows, {r \in {t.rows[i] : i \in 1..Len(t.rows)} : PyEq(r.Grade, grade)})

QuestionLabel(q_num) == <<"Q">> \o NatToStr(q_num)

\* Accuracy averaged over the decodable answers only.
AccuracyOfAnswered(grade_rows, q_num, correct_val) ==
  Ratio(100 * Cardinality({i \in 1..Len(grade_rows) :
                             extract_answer_value(grade_rows[i].cells[q_num])
                               = Some(correct_val)}),
        Cardinality({i \in 1..Len(grade_rows) :
                       extract_answer_value(grade_rows[i].cells[q_num]) # None}))

\* is_correct.mean() * 100 over the rows of one grade
Accuracy(grade_rows, q_num, correct_val) ==
  Ratio(100 * Cardinality({i \in 1..Len(grade_rows) :
                             extract_answer_value(grade_rows[i].cells[q_num])
                               = Some(correct_val)}),
        Len(grade_rows))

RECURSIVE QuestionLoop(_, _, _, _, _)
QuestionLoop(t, grade, key_subset, q_num, stats) ==
  IF q_num > LastQuestion THEN stats
  ELSE LET q_key == QuestionKey(key_subset, q_num)
       IN  QuestionLoop(t, grade, key_subset, q_num + 1,
             IF q_num \in t.qcols /\ q_key # <<>>
               THEN Append(stats,
                      [Grade |-> grade, Question |-> QuestionLabel(q_num),
                       Accuracy |-> Accuracy(GradeRows(t, grade), q_num, q_key[1].Correct)])
               ELSE stats)

RECURSIVE GradeLoop(_, _, _, _, _)
GradeLoop(t, key, phase, grades, stats) ==
  IF grades = <<>> THEN stats
  ELSE GradeLoop(t, key, phase, Tail(grades),
         QuestionLoop(t, grades[1], RelevantKey(key, grades[1], phase), 1, stats))

calculate_question_stats(t, key, phase) ==
  GradeLoop(t, key, phase, Unique([i \in 1..Len(t.rows) |-> t.rows[i].Grade]), <<>>)

\* df.apply(lambda x: calculate_row_score(x, key, phase), axis=1)
ScoreTable(t, key, phase) ==
  [i \in 1..Len(t.rows) |-> calculate_row_score(t.rows[i], key, phase)]

(***************************************************************************)
(* Inputs of the analyzer.  A response sheet has at least one row and      *)
(* holds text in State and Center, so that the row df.apply hands to the   *)
(* scorer is an object Series that keeps the Grade as the column holds it. *)
(* A key Grade is a code "G<n>".                                           *)
(***************************************************************************)
RequiredColumns == {"Student ID", "State", "Center", "Grade"}

SeqsFrom(S, lo, hi) == UNION {[1..k -> S] : k \in lo..hi}

\* Grade cells as written in the sheet: 5, 3, the text "5", blank
RawGrades == {GInt(5), GInt(3), GStr(<<"5">>), GNaN}
StatCells == {Blank, Answer2, Answer3}
StatColumnSets == {{1, LastQuestion + 1}, 1..(LastQuestion + 1)}

StatSheets ==
  {[columns |-> RequiredColumns, qcols |-> qc,
    rows |-> [i \in 1..Len(rs) |->
                [sid |-> i, Grade |-> rs[i][1], cells |-> RowCells(qc, rs[i][2], Answer2)]]] :
     qc \in StatColumnSets, rs \in SeqsFrom(RawGrades \X StatCells, 1, MaxRows)}

StatTables == {ReadSheet(sh) : sh \in StatSheets}

StatEntries ==
  {KeyEntry(G5, "Endline", 1, c) : c \in {2, 3}}
    \cup {KeyEntry(G5, "Baseline", 1, 2),
          KeyEntry(G5, "Endline", LastQuestion + 1, 2)}

\* Key sheets of at most two entries, and the Q1..Q10 block with at most one
\* entry above or below it.
StatKeys ==
  SeqsUpTo(StatEntries, 2)
    \cup {x \o Template("Endline", LastQuestion) : x \in SeqsUpTo(StatEntries, 1)}
    \cup {Template("Endline", LastQuestion) \o x : x \in SeqsUpTo(StatEntries, 1)}

(***************************************************************************)
(* Specification of the analyzer: the rows of one table are scored, then   *)
(* its per-question accuracies are computed, for the same key and phase.   *)
(***************************************************************************)
InitStats ==
  /\ pc = "start"
  /\ df \in StatTables
  /\ key_df \in StatKeys
  /\ assessment_type \in Phases
  /\ val = Unused /\ row = Unused /\ xls = Unused /\ ret = Unused
  /\ q_stats = Unused

ScoreRows ==
  /\ pc = "start"
  /\ ret' = ScoreTable(df, key_df, assessment_type)
  /\ pc' = "scored"
  /\ UNCHANGED <<val, row, df, key_df, assessment_type, xls, q_stats>>

CalculateQuestionStats ==
  /\ pc = "scored"
  /\ q_stats' = calculate_question_stats(df, key_df, assessment_type)
  /\ pc' = "done"
  /\ UNCHANGED <<val, row, df, key_df, assessment_type, xls, ret>>

NextStats == ScoreRows \/ CalculateQuestionStats

SpecStats == InitStats /\ [][NextStats]_vars

(***************************************************************************)
(* process_workbook                                                        *)
(***************************************************************************)
SheetNames == {"WB-Baseline-English", "WB-Endline-English", "AnswerKey"}

\* return None, None, None, None
Failure ==
  [error |-> TRUE, merged_df |-> None, baseline_df |-> None,
   endline_df |-> None, answer_key |-> None]

\* df['Score'], df['Max_Score'] = zip(*df.apply(...)); df['Percentage'] = Score / Max_Score * 100
Scored(t, key, phase) ==
  LET sc == ScoreTable(t, key, phase)
  IN  [t EXCEPT !.rows = [i \in 1..Len(t.rows) |->
         [sid |-> t.rows[i].sid, Grade |-> t.rows[i].Grade, cells |-> t.rows[i].cells,
          Score |-> sc[i][1], Max_Score |-> sc[i][2],
          Percentage |-> Ratio(100 * sc[i][1], sc[i][2])]]]

MergedRow(b, e) ==
  [sid |-> b.sid, Grade |-> b.Grade,
   Percentage_BL |-> b.Percentage, Score_BL |-> b.Score,
   Percentage_EL |-> e.Percentage, Score_EL |-> e.Score,
   Growth |-> RatioSub(e.Percentage, b.Percentage)]

\* JoinRow keeping only the first endline row of a student.
RECURSIVE JoinRowFirstMatch(_, _)
JoinRowFirstMatch(b, erows) ==
  IF erows = <<>> THEN <<>>
  ELSE IF erows[1].sid = b.sid THEN <<MergedRow(b, erows[1])>>
  ELSE JoinRowFirstMatch(b, Tail(erows))

\* the endline rows that join one baseline row, in endline order
RECURSIVE JoinRow(_, _)
JoinRow(b, erows) ==
  IF erows = <<>> THEN <<>>
  ELSE (IF erows[1].sid = b.sid THEN <<MergedRow(b, erows[1])>> ELSE <<>>)
         \o JoinRow(b, Tail(erows))

\* pd.merge(..., on='Student ID'): inner join, one row per matching pair
RECURSIVE Merge(_, _)
Merge(brows, erows) ==
  IF brows = <<>> THEN <<>>
  ELSE JoinRow(brows[1], erows) \o Merge(Tail(brows), erows)

\* The columns the body reads of each sheet; a missing one raises KeyError,
\* which the except clause turns into the failure return.
BaselineColumnsRead == {"Student ID", "State", "Center", "Grade"}
EndlineColumnsRead == {"Student ID", "Grade"}

process_workbook(x) ==
  IF ~(SheetNames \subseteq x.sheets) THEN Failure
  ELSE IF ~(BaselineColumnsRead \subseteq x.baseline.columns) THEN Failure
  ELSE IF ~(EndlineColumnsRead \subseteq x.endline.columns) THEN Failure
  ELSE LET baseline_df == Scored(x.baseline, x.key, "Baseline")
           endline_df == Scored(x.endline, x.key, "Endline")
       IN  [error |-> FALSE,
            merged_df |-> Some(Merge(baseline_df.rows, endline_df.rows)),
            baseline_df |-> Some(baseline_df),
            endline_df |-> Some(endline_df),
            answer_key |-> Some(x.key)]

(***************************************************************************)
(* Inputs of the processor                                                 *)
(***************************************************************************)
StudentIds == {1, 2}
ProcGrades == {GInt(5), GInt(3), GNaN}

ProcSheet(cols, rs) ==
  ReadSheet([columns |-> cols, qcols |-> {1},
             rows |-> [i \in 1..Len(rs) |->
                         [sid |-> rs[i][1], Grade |-> rs[i][2],
                          cells |-> RowCells({1}, Answer2, Answer2)]]])

ProcTables == {ProcSheet(RequiredColumns, rs) :
                 rs \in SeqsFrom(StudentIds \X ProcGrades, 1, MaxRows)}

ProcKeys ==
  { <<>>,
    <<KeyEntry(G5, "Baseline", 1, 2)>>,
    <<KeyEntry(G5, "Baseline", 1, 2), KeyEntry(G5, "Endline", 1, 2)>>,
    <<KeyEntry(G5, "Baseline", 1, 3), KeyEntry(G5, "Endline", 1, 2)>> }

\* Workbooks with the three sheets and every required column.
WellFormed ==
  {[sheets |-> SheetNames, baseline |-> b, endline |-> e, key |-> k] :
     b \in ProcTables, e \in ProcTables, k \in ProcKeys}

\* One workbook with any of its sheets or required columns taken away.
Malformed ==
  {[sheets |-> sh,
    baseline |-> ProcSheet(bc, <<<<1, GInt(5)>>>>),
    endline |-> ProcSheet(ec, <<<<1, GInt(5)>>>>),
    key |-> <<KeyEntry(G5, "Baseline", 1, 2), KeyEntry(G5, "Endline", 1, 2)>>] :
     sh \in SUBSET SheetNames, bc \in SUBSET RequiredColumns, ec \in SUBSET RequiredColumns}

Workbooks == WellFormed \cup Malformed

(***************************************************************************)
(* Specification of the processor: one call of process_workbook            *)
(***************************************************************************)
InitProcess ==
  /\ pc = "start"
  /\ xls \in Workbooks
  /\ val = Unused /\ row = Unused /\ df = Unused /\ key_df = Unused
  /\ assessment_type = Unused /\ ret = Unused /\ q_stats = Unused

ProcessWorkbook ==
  /\ pc = "start"
  /\ ret' = process_workbook(xls)
  /\ pc' = "done"
  /\ UNCHANGED <<val, row, df, key_df, assessment_type, xls, q_stats>>

NextProcess == ProcessWorkbook

SpecProcess == InitProcess /\ [][NextProcess]_vars

(***************************************************************************)
(* Properties                                                              *)
(***************************************************************************)
Min(a, b) == IF a <= b THEN a ELSE b

RatioEq(a, b) == ~a.nan /\ ~b.nan /\ a.num * b.den = b.num * a.den

RECURSIVE Sum(_, _)
Sum(f, S) ==
  IF S = {} THEN 0
  ELSE LET x == CHOOSE x \in S : TRUE IN f[x] + Sum(f, S \ {x})

\* The positions of the key rows for (grade, phase, question), by the code's
\* own notion of a matching grade.
Entries(key, grade, phase, q) ==
  {i \in 1..Len(key) : /\ key[i].Grade = GradeCode(grade)
                       /\ key[i].Assessment = phase
                       /\ key[i].Question = q}

FirstCorrect(key, grade, phase, q) ==
  LET E == Entries(key, grade, phase, q)
  IN  key[CHOOSE i \in E : \A j \in E : i <= j].Correct

\* The questions of a row that count: asked (1..10), present as a column and
\* covered by the key.
Covered(r, key, phase) ==
  {q \in 1..10 : q \in DOMAIN r.cells /\ Entries(key, r.Grade, phase, q) # {}}

Right(r, key, phase) ==
  {q \in Covered(r, key, phase) :
     extract_answer_value(r.cells[q]) = Some(FirstCorrect(key, r.Grade, phase, q))}

SameTriple(a, b) ==
  a.Grade = b.Grade /\ a.Assessment = b.Assessment /\ a.Question = b.Question

\* C1: every call of calculate_row_score returns 0 <= score <= max_score <= 10,
\* whatever question columns the row has and however often the key repeats
\* a (grade, phase, question).
C1_ScoreWithinBounds ==
  pc = "done" => 0 <= ret[1] /\ ret[1] <= ret[2] /\ ret[2] <= 10

\* C1 witness: a row with a Q11 column, a key with a Q11 entry for the row's
\* grade and phase and with a repeated triple, scored to the full 10.
C1_Witness ==
  /\ pc = "done"
  /\ 11 \in DOMAIN row.cells
  /\ Entries(key_df, row.Grade, assessment_type, 11) # {}
  /\ \E i, j \in 1..Len(key_df) : i < j /\ SameTriple(key_df[i], key_df[j])
  /\ ret[2] = 10

\* C2: a malformed answer cell (not JSON, a JSON object without "value", a
\* "value" that is not an integer) decodes to None.
C2_MalformedDecodesToNone ==
  pc = "done" /\ val \in CellsOf(NonJsonBodies \cup NoValueBodies \cup NonIntBodies)
    => ret = None

\* C3, as stated: the merged table has at most min(|baseline|, |endline|) rows,
\* and that many only if every baseline Student ID is in endline.
C3_AtMostMinRows ==
  pc = "done" /\ ~ret.error =>
    LET b == xls.baseline.rows
        e == xls.endline.rows
        n == Len(ret.merged_df[1])
    IN  /\ n <= Min(Len(b), Len(e))
        /\ n = Min(Len(b), Len(e)) =>
             \A i \in 1..Len(b) : \E j \in 1..Len(e) : b[i].sid = e[j].sid

NoRepeatedId(rows) ==
  \A i, j \in 1..Len(rows) : rows[i].sid = rows[j].sid => i = j

IdsWithin(a, b) == \A i \in 1..Len(a) : \E j \in 1..Len(b) : a[i].sid = b[j].sid

\* C3, amended: the merged table has one row per pair of a baseline row and
\* an endline row with the same Student ID; when no Student ID is repeated
\* within a sheet that is at most min(|baseline|, |endline|), and equal to it
\* exactly when every Student ID of a sheet with the fewest rows is in the
\* other sheet.
C3_OneRowPerMatchingPair ==
  pc = "done" /\ ~ret.error =>
    LET b == xls.baseline.rows
        e == xls.endline.rows
        n == Len(ret.merged_df[1])
    IN  /\ n = Cardinality({p \in (1..Len(b)) \X (1..Len(e)) : b[p[1]].sid = e[p[2]].sid})
        /\ NoRepeatedId(b) /\ NoRepeatedId(e) =>
             /\ n <= Min(Len(b), Len(e))
             /\ n = Min(Len(b), Len(e)) <=>
                  \/ Len(b) <= Len(e) /\ IdsWithin(b, e)
                  \/ Len(e) <= Len(b) /\ IdsWithin(e, b)

\* C3 witness: a Student ID repeated in both sheets, so that the join has
\* more rows than either sheet.
C3_Witness ==
  /\ pc = "done"
  /\ ~ret.error
  /\ ~NoRepeatedId(xls.baseline.rows)
  /\ Len(ret.merged_df[1]) > Len(xls.baseline.rows)
  /\ Len(ret.merged_df[1]) > Len(xls.endline.rows)

\* C4: max_score is the number of questions 1..10 that are a column of the row
\* and have a key entry for the row's grade and the phase; score is the number
\* of those whose decoded answer equals the correct answer; a cell that
\* decodes to None counts in max_score and never in score.
C4_PerQuestionContribution ==
  pc = "done" =>
    /\ ret[2] = Cardinality(Covered(row, key_df, assessment_type))
    /\ ret[1] = Cardinality(Right(row, key_df, assessment_type))
    /\ \A q \in Covered(row, key_df, assessment_type) :
         extract_answer_value(row.cells[q]) = None
           => q \notin Right(row, key_df, assessment_type)
    /\ (\A q \in DOMAIN row.cells : extract_answer_value(row.cells[q]) = None)
         => ret[1] = 0

\* C4 witness: a row with a covered question whose cell does not decode, a
\* covered question answered right, and a column the key does not cover.
C4_Witness ==
  /\ pc = "done"
  /\ \E q \in Covered(row, key_df, assessment_type) :
       extract_answer_value(row.cells[q]) = None
  /\ Right(row, key_df, assessment_type) # {}
  /\ \E q \in DOMAIN row.cells \cap 1..10 : q \notin Covered(row, key_df, assessment_type)
  /\ ret[1] < ret[2]

StructuralFailure(x) ==
  \/ ~(SheetNames \subseteq x.sheets)
  \/ ~(RequiredColumns \subseteq x.baseline.columns)
  \/ ~(RequiredColumns \subseteq x.endline.columns)

\* C5: when a required sheet is missing or a response sheet lacks Student ID,
\* State, Center or Grade, process_workbook reports an error and returns none
\* of the four tables.
C5_StructuralFailureReturnsNothing ==
  pc = "done" /\ StructuralFailure(xls) => ret = Failure

ScoredRows(t) == {t.rows[i] : i \in 1..Len(t.rows)}

\* C6: a workbook with its sheets and columns is processed without error; a
\* row whose grade and phase have no key entry gets Max_Score 0 and a NaN
\* Percentage, every row with a Max_Score above 0 has the defined Percentage
\* 100 * Score / Max_Score, and a joined row's Growth is NaN exactly when one
\* of its two percentages is.
C6_NaNPercentagePropagates ==
  pc = "done" /\ ~StructuralFailure(xls) =>
    /\ ~ret.error
    /\ \A ph \in Phases :
         LET t == IF ph = "Baseline" THEN ret.baseline_df[1] ELSE ret.endline_df[1]
         IN  \A r \in ScoredRows(t) :
               /\ (\A i \in 1..Len(xls.key) :
                     ~(xls.key[i].Grade = GradeCode(r.Grade) /\ xls.key[i].Assessment = ph))
                    => r.Max_Score = 0 /\ r.Percentage.nan
               /\ r.Max_Score > 0 =>
                    /\ ~r.Percentage.nan
                    /\ r.Percentage.num * r.Max_Score = 100 * r.Score * r.Percentage.den
    /\ \A i \in 1..Len(ret.merged_df[1]) :
         LET m == ret.merged_df[1][i]
         IN  /\ m.Growth.nan <=> (m.Percentage_BL.nan \/ m.Percentage_EL.nan)
             /\ ~m.Growth.nan =>
                  RatioEq(m.Growth, RatioSub(m.Percentage_EL, m.Percentage_BL))

\* C6 witness: a baseline sheet with one row of an uncovered grade (NaN) and
\* one row with a defined Percentage, and a joined row whose Growth is NaN.
C6_Witness ==
  /\ pc = "done"
  /\ ~ret.error
  /\ \E r1, r2 \in ScoredRows(ret.baseline_df[1]) :
       r1.Max_Score = 0 /\ r1.Percentage.nan /\ r2.Max_Score > 0 /\ ~r2.Percentage.nan
  /\ \E i \in 1..Len(ret.merged_df[1]) : ret.merged_df[1][i].Growth.nan
  /\ \E i \in 1..Len(ret.merged_df[1]) : ~ret.merged_df[1][i].Growth.nan

\* The rows of the table that calculate_question_stats groups under a grade.
Group(t, grade) == {i \in 1..Len(t.rows) : PyEq(t.rows[i].Grade, grade)}

\* C7: every accuracy record is for a question 1..10 that is a column and has
\* a key entry for the record's grade; its accuracy is 100 * (rows of the
\* grade whose decoded answer equals the correct answer) / (all rows of the
\* grade), hence within [0, 100].
C7_AccuracyOverAllRowsOfGrade ==
  pc = "done" =>
    \A k \in 1..Len(q_stats) :
      LET rec == q_stats[k]
          grp == Group(df, rec.Grade)
      IN  \E q \in 1..10 :
            /\ rec.Question = QuestionLabel(q)
            /\ q \in df.qcols
            /\ Entries(key_df, rec.Grade, assessment_type, q) # {}
            /\ grp # {}
            /\ ~rec.Accuracy.nan
            /\ rec.Accuracy.den > 0
            /\ rec.Accuracy.num * Cardinality(grp) =
                 100 * rec.Accuracy.den *
                   Cardinality({i \in grp :
                     extract_answer_value(df.rows[i].cells[q]) =
                       Some(FirstCorrect(key_df, rec.Grade, assessment_type, q))})
            /\ 0 <= rec.Accuracy.num
            /\ rec.Accuracy.num <= 100 * rec.Accuracy.den

\* C7 witness: a record for a grade with a blank answer and a right answer,
\* so that the blank row is what keeps the accuracy below 100.
C7_Witness ==
  /\ pc = "done"
  /\ \E k \in 1..Len(q_stats) :
       /\ q_stats[k].Question = QuestionLabel(1)
       /\ q_stats[k].Accuracy.num > 0
       /\ q_stats[k].Accuracy.num < 100 * q_stats[k].Accuracy.den
       /\ \E i \in Group(df, q_stats[k].Grade) :
            extract_answer_value(df.rows[i].cells[1]) = None
       /\ \A i \in Group(df, q_stats[k].Grade) :
            extract_answer_value(df.rows[i].cells[1]) \in
              {None, Some(FirstCorrect(key_df, q_stats[k].Grade, assessment_type, 1))}

Grade5Forms == {GInt(5), GStr(<<"5">>), GFloat(5)}

\* C8: whichever form the grade 5 of a student row takes (the number 5, the
\* text "5", the float 5.0 of a column with a blank cell), the row is scored
\* against the same key entries as the number 5, those of "G5".
C8_EveryFormOfGradeMatches ==
  pc = "done" /\ row.Grade \in Grade5Forms =>
    ret = calculate_row_score([row EXCEPT !.Grade = GInt(5)], key_df, assessment_type)

\* The key with only the first row of every (grade, phase, question).
FirstOnly(key) ==
  Filter(key, {key[i] : i \in {i \in 1..Len(key) :
                                 \A j \in 1..(i - 1) : ~SameTriple(key[j], key[i])}})

\* C9: scores and accuracy records are what the key gives with every repeated
\* (grade, phase, question) reduced to its first row: the first row decides
\* the correct answer, and a repeat adds no max_score slot and no record.
C9_FirstKeyRowDecides ==
  /\ pc \in {"scored", "done"} =>
       ret = ScoreTable(df, FirstOnly(key_df), assessment_type)
  /\ pc = "done" =>
       q_stats = calculate_question_stats(df, FirstOnly(key_df), assessment_type)

\* C9 witness: a key with two rows for (grade, phase, Q1) that disagree, and a
\* row of that grade answering Q1 with the second row's value.
C9_Witness ==
  /\ pc = "done"
  /\ \E i, j \in 1..Len(key_df) :
       /\ i < j
       /\ SameTriple(key_df[i], key_df[j])
       /\ key_df[i].Correct # key_df[j].Correct
       /\ key_df[i].Assessment = assessment_type
       /\ key_df[i].Question = 1
       /\ \E n \in 1..Len(df.rows) :
            /\ key_df[i].Grade = GradeCode(df.rows[n].Grade)
            /\ extract_answer_value(df.rows[n].cells[1]) = Some(key_df[j].Correct)
            /\ ret[n][2] >= 1
  /\ q_stats # <<>>

\* The number of rows a record counted correct: Accuracy / 100 * rows.
CorrectCount(rec, n) == (rec.Accuracy.num * n) \div (100 * rec.Accuracy.den)

\* C10: for every grade in the table, the scores of its rows add up to the
\* correct counts of its accuracy records, and each of its rows has a
\* Max_Score equal to the number of those records.
C10_ScorerAgreesWithAnalyzer ==
  pc = "done" =>
    \A g \in {df.rows[i].Grade : i \in 1..Len(df.rows)} :
      LET rws == {i \in 1..Len(df.rows) : df.rows[i].Grade = g}
          recs == {k \in 1..Len(q_stats) : q_stats[k].Grade = g}
      IN  /\ Sum([i \in rws |-> ret[i][1]], rws) =
               Sum([k \in recs |-> CorrectCount(q_stats[k], Cardinality(rws))], recs)
          /\ \A k \in recs :
               (q_stats[k].Accuracy.num * Cardinality(rws)) % (100 * q_stats[k].Accuracy.den) = 0
          /\ \A i \in rws : ret[i][2] = Cardinality(recs)

\* C10 witness: two grades in one table, each with accuracy records and a
\* right answer.
C10_Witness ==
  /\ pc = "done"
  /\ \E i, j \in 1..Len(df.rows) :
       /\ df.rows[i].Grade # df.rows[j].Grade
       /\ ret[i][1] >= 1 /\ ret[j][1] >= 1
       /\ \E k, l \in 1..Len(q_stats) :
            q_stats[k].Grade = df.rows[i].Grade /\ q_stats[l].Grade = df.rows[j].Grade

====
